---- MODULE Spec2Model ----
(***************************************************************************)
(* Model of src/src/thumbnails/thumbnailRenderer.ts: the thumbnail render  *)
(* cache (renderThumbnail with its loadedData and errorHandler callbacks)  *)
(* and the progressive canvas (createThumbnailCanvas).                     *)
(*                                                                         *)
(* JavaScript runs the code on one thread: every action below is the code  *)
(* that runs between two suspension points (an await, a decoder event, a   *)
(* timer).  The cache of thumbnailDataCache is keyed by videoID; the model *)
(* follows the calls made for one videoID, so `cache` is that video's      *)
(* `video` array.                                                          *)
(***************************************************************************)
EXTENDS Integers, Sequences, FiniteSets, TLC

\* ---------------------------------------------------------------- bounds
\* render calls issued directly (specification Spec)
MaxCalls == 2
\* createThumbnailCanvas calls (specification SpecPresent)
MaxPresents == 2
\* render calls for the target size (specification SpecTarget)
MaxTargetCalls == 2
\* render calls and decoder "error" events of specification SpecWaiters
MaxWaiterCalls == 3
MaxWaiterErrors == 1
\* decoder "error" events the environment delivers in one behaviour
MaxErrors == 6

\* ------------------------------------------------------ program constants
\* the literal of `tries++ > 5`
MaxTries == 5
\* replaceThumbnail's width and height
TargetWidth == 720
TargetHeight == 404
\* the timestamp getThumbnailTimestamp gives for the video (fixed per video)
ThumbnailTimestamp == 1
\* replaceThumbnail passes saveVideo = false
SaveVideo == FALSE

\* Sizes a decoded video can have (videoWidth, videoHeight).
VideoSizes == { <<256, 144>>, <<TargetWidth, TargetHeight>>, <<1280, 720>> }
\* Sizes renderThumbnail is called with: the default request and the target.
RequestSizes == { <<0, 0>>, <<TargetWidth, TargetHeight>> }

Max(a, b) == IF a >= b THEN a ELSE b
CallIds == 1 .. Max(Max(MaxCalls, Max(MaxTargetCalls, MaxWaiterCalls)), 2 * MaxPresents)
PresentIds == 1 .. MaxPresents

VARIABLES
    cache,      \* getFromCache(videoID).video: sequence of RenderedThumbnailVideo
    pc,         \* where each renderThumbnail call is
    req,        \* <<width, height>> of each call
    tries,      \* the call's `tries`
    result,     \* what the call's promise settled with
    created,    \* history: createVideo calls made by the call
    waited,     \* history: the call pushed its resolve onto an onReady list
    sig,        \* history: a decoder of the call has fired loadeddata or error
    hadRendered,\* history: a rendered entry satisfying the key was cached at call time
    leftStore,  \* history: the array as the call's give-up left it
    fresh,      \* history: the call came for a given-up key, the array as left
    save,       \* the call's saveVideo
    decoded,    \* history: <<videoWidth, videoHeight>> of the call's loadeddata
    released,   \* history: video.remove() calls made by the call
    regLog,     \* history: <<call, entry id>> of every resolve pushed onto an onReady
    wakeLog,    \* history: <<call, canvas>> of every onReady callback invoked
    ppc,        \* where each createThumbnailCanvas call is
    small,      \* the call id of its renderThumbnail(videoID, 0, 0, ...)
    large,      \* the call id of its delayed renderThumbnail(videoID, width, height, ...)
    smallInfo,  \* smallerCanvasInfo as the then-callback received it
    drawn,      \* sequence of frames drawCentered put on the canvas
    readyCalls  \* number of times `ready` was invoked

renderVars == <<cache, pc, req, tries, result, created, waited, sig, hadRendered,
                leftStore, fresh, save, decoded, released, regLog, wakeLog>>
presentVars == <<ppc, small, large, smallInfo, drawn, readyCalls>>
vars == <<cache, pc, req, tries, result, created, waited, sig, hadRendered,
          leftStore, fresh, save, decoded, released, regLog, wakeLog,
          ppc, small, large, smallInfo, drawn, readyCalls>>

\* null, where a RenderedThumbnailVideo is expected
NoEntry == [width |-> -1, height |-> -1, canvas |-> 0]

\* ------------------------------------------------------------ AssetStore
\* A pending entry as pushed at lines 29-36 and 117-124.  `id` stands for the
\* identity of the object: the pushing call and the number of its video.
PendingEntry(c, n, w, h, ts) ==
    [width |-> w, height |-> h, timestamp |-> ts, rendered |-> FALSE,
     onReady |-> <<>>, video |-> c, canvas |-> 0, id |-> <<c, n>>]

\* videoInfo of loadedData, lines 57-65.
VideoInfo(c, vw, vh, ts, saveVideo) ==
    [width |-> vw, height |-> vh, timestamp |-> ts, rendered |-> TRUE,
     onReady |-> <<>>, video |-> IF saveVideo THEN c ELSE 0, canvas |-> c,
     id |-> <<c, 0>>]

\* video.remove() with no effect: the decoder stays held.
RemoveNothing(n) == n

\* video.remove() of lines 45, 83 and 92, on the count of removed videos.
Remove(n) == n + 1

\* The callbacks of an entry taken last to first.
CallbacksReversed(entry) ==
    [i \in 1 .. Len(entry.onReady) |-> entry.onReady[Len(entry.onReady) + 1 - i]]

\* `for (const callback of currentVideoInfo.onReady)`, lines 72-74: the
\* callbacks in the order they are invoked.
Callbacks(entry) == entry.onReady

\* Array.prototype.find / findIndex: the first of the indices that satisfy the
\* test, 0 if none does.
First(hits) ==
    IF hits = {} THEN 0 ELSE CHOOSE i \in hits : \A j \in hits : i <= j

\* bestVideo with the size test lost: the last entry, whatever was asked for.
BestVideoLast(s, width, height, timestamp) ==
    IF Len(s) > 0 THEN Len(s) ELSE 0

\* bestVideo of renderThumbnail, lines 10-12, as an index into the array (0: none).
BestVideo(s, width, height, timestamp) ==
    IF Len(s) > 0
    THEN IF width # 0 /\ height # 0
         THEN First({ i \in 1 .. Len(s) : s[i].width >= width /\ s[i].height >= height
                                      /\ timestamp = s[i].timestamp })
         ELSE Len(s)
    ELSE 0

\* betterVideo with the check lost: nothing is ever found.
BetterVideoNone(s, width, height, timestamp) == 0

\* betterVideo of loadedData, lines 42-43.
BetterVideo(s, width, height, timestamp) ==
    First({ i \in 1 .. Len(s) : s[i].width >= width /\ s[i].height >= height
                            /\ s[i].timestamp = timestamp /\ s[i].rendered })

\* currentVideoInfoIndex of loadedData, lines 68-69.
CurrentVideoInfoIndex(s, videoWidth, videoHeight, timestamp) ==
    First({ i \in 1 .. Len(s) : s[i].width = videoWidth /\ s[i].height = videoHeight
                            /\ s[i].timestamp = timestamp })

\* The give-up filter with its test inverted: it keeps what it should drop.
GiveUpFilterKeeps(s, width, height, timestamp) ==
    SelectSeq(s, LAMBDA v : v.width = width /\ v.height = height
                         /\ v.timestamp = timestamp)

\* The give-up filter of errorHandler, line 98.
GiveUpFilter(s, width, height, timestamp) ==
    SelectSeq(s, LAMBDA v : v.width # width /\ v.height # height
                         /\ v.timestamp # timestamp)

\* The slot lookup of errorHandler, lines 112-113.
RetryIndex(s, width, height, timestamp) ==
    First({ i \in 1 .. Len(s) : s[i].width = width /\ s[i].height = height
                            /\ s[i].timestamp = timestamp })

\* getPlaybackUrl gives a format at least as large as the request (any format
\* for the default request): the sizes the decoded video can then have.
DecodedSizes(width, height) ==
    { s \in VideoSizes : s[1] >= width /\ s[2] >= height }

\* ------------------------------------------------------------------ Init
Init ==
    /\ cache = <<>>
    /\ pc = [c \in CallIds |-> "idle"]
    /\ req = [c \in CallIds |-> <<0, 0>>]
    /\ tries = [c \in CallIds |-> 0]
    /\ result = [c \in CallIds |-> NoEntry]
    /\ created = [c \in CallIds |-> 0]
    /\ waited = [c \in CallIds |-> FALSE]
    /\ sig = [c \in CallIds |-> FALSE]
    /\ hadRendered = [c \in CallIds |-> FALSE]
    /\ leftStore = [c \in CallIds |-> <<>>]
    /\ fresh = [c \in CallIds |-> FALSE]
    /\ save = [c \in CallIds |-> FALSE]
    /\ decoded = [c \in CallIds |-> <<0, 0>>]
    /\ released = [c \in CallIds |-> 0]
    /\ regLog = <<>>
    /\ wakeLog = <<>>
    /\ ppc = [p \in PresentIds |-> "idle"]
    /\ small = [p \in PresentIds |-> 0]
    /\ large = [p \in PresentIds |-> 0]
    /\ smallInfo = [p \in PresentIds |-> NoEntry]
    /\ drawn = [p \in PresentIds |-> <<>>]
    /\ readyCalls = [p \in PresentIds |-> 0]

\* Call ids are handed out in order.
FreeCalls == { c \in CallIds : pc[c] = "idle" }
NextCall == CHOOSE c \in FreeCalls : \A d \in FreeCalls : c <= d

\* Decoder errors delivered so far: each one incremented a call's `tries`.
ErrorsSoFar(S) ==
    LET RECURSIVE Sum(_)
        Sum(T) == IF T = {} THEN 0
                  ELSE LET c == CHOOSE x \in T : TRUE
                       IN (IF tries[c] > 0 THEN tries[c] - 1 ELSE 0) + Sum(T \ {c})
    IN Sum(S)

\* ------------------------------------------------------- renderThumbnail
\* Lines 5-23: the call up to its first await.  Returns the cached entry,
\* pushes its resolve onto the pending entry's onReady, or asks for the URL.
RenderStart(c, width, height, saveVideo) ==
    LET best == BestVideo(cache, width, height, ThumbnailTimestamp)
    IN /\ pc[c] = "idle"
       /\ req' = [req EXCEPT ![c] = <<width, height>>]
       /\ save' = [save EXCEPT ![c] = saveVideo]
       /\ hadRendered' = [hadRendered EXCEPT ![c] =
             /\ width # 0 /\ height # 0
             /\ \E i \in 1 .. Len(cache) :
                   /\ cache[i].rendered
                   /\ cache[i].timestamp = ThumbnailTimestamp
                   /\ cache[i].width >= width /\ cache[i].height >= height]
       /\ fresh' = [fresh EXCEPT ![c] =
             \E d \in CallIds : /\ pc[d] = "gaveup"
                                 /\ req[d] = <<width, height>>
                                 /\ cache = leftStore[d]]
       /\ IF best # 0 /\ cache[best].rendered
          THEN /\ pc' = [pc EXCEPT ![c] = "returned"]
               /\ result' = [result EXCEPT ![c] =
                     [width |-> cache[best].width, height |-> cache[best].height,
                      canvas |-> cache[best].canvas]]
               /\ UNCHANGED <<cache, waited, regLog>>
          ELSE IF best # 0
          THEN /\ cache' = [cache EXCEPT ![best].onReady = Append(@, c)]
               /\ pc' = [pc EXCEPT ![c] = "waiting"]
               /\ waited' = [waited EXCEPT ![c] = TRUE]
               /\ regLog' = Append(regLog, <<c, cache[best].id>>)
               /\ UNCHANGED result
          ELSE /\ pc' = [pc EXCEPT ![c] = "resolving"]
               /\ UNCHANGED <<cache, waited, result, regLog>>
       /\ UNCHANGED <<tries, created, sig, leftStore, decoded, released, wakeLog>>

\* Lines 23-38: getPlaybackUrl answered.  Without a url the call returns null;
\* otherwise it creates the video, pushes the pending entry and listens.
UrlResolved(c, url) ==
    /\ pc[c] = "resolving"
    /\ IF ~url
       THEN /\ pc' = [pc EXCEPT ![c] = "null"]
            /\ UNCHANGED <<cache, tries, created>>
       ELSE /\ created' = [created EXCEPT ![c] = @ + 1]
            /\ tries' = [tries EXCEPT ![c] = 1]
            /\ cache' = Append(cache, PendingEntry(c, 1, req[c][1], req[c][2],
                                                    ThumbnailTimestamp))
            /\ pc' = [pc EXCEPT ![c] = "decoding"]
    /\ UNCHANGED <<req, result, waited, sig, hadRendered, leftStore, fresh,
                   save, decoded, released, regLog, wakeLog>>

\* Lines 41-87: the video fired loadeddata with size videoWidth x videoHeight.
LoadedData(c, videoWidth, videoHeight) ==
    LET width == req[c][1]
        height == req[c][2]
        videoInfo == VideoInfo(c, videoWidth, videoHeight, ThumbnailTimestamp,
                               save[c])
        index == CurrentVideoInfoIndex(cache, videoWidth, videoHeight,
                                       ThumbnailTimestamp)
        callbacks == IF index # 0 THEN Callbacks(cache[index]) ELSE <<>>
        woken == { callbacks[i] : i \in 1 .. Len(callbacks) }
    IN /\ pc[c] = "decoding"
       /\ <<videoWidth, videoHeight>> \in DecodedSizes(width, height)
       /\ sig' = [sig EXCEPT ![c] = TRUE]
       /\ decoded' = [decoded EXCEPT ![c] = <<videoWidth, videoHeight>>]
       /\ IF BetterVideo(cache, width, height, ThumbnailTimestamp) # 0
          THEN /\ released' = [released EXCEPT ![c] = Remove(@)]
               /\ pc' = [pc EXCEPT ![c] = "rejected"]
               /\ UNCHANGED <<cache, result, wakeLog>>
          ELSE /\ cache' = IF index # 0
                           THEN [cache EXCEPT ![index] = videoInfo]
                           ELSE Append(cache, videoInfo)
               \* each callback resumes its call after the await of lines 17-19,
               \* which goes on to getPlaybackUrl at line 23
               /\ pc' = [d \in CallIds |->
                           IF d = c THEN "returned"
                           ELSE IF d \in woken THEN "resolving" ELSE pc[d]]
               /\ wakeLog' = wakeLog \o [i \in 1 .. Len(callbacks) |->
                                           <<callbacks[i], videoInfo.canvas>>]
               /\ released' = [released EXCEPT ![c] =
                                 IF save[c] THEN @ ELSE Remove(@)]
               /\ result' = [result EXCEPT ![c] =
                     [width |-> videoWidth, height |-> videoHeight, canvas |-> c]]
       /\ UNCHANGED <<req, tries, created, waited, hadRendered, leftStore, fresh,
                      save, regLog>>

\* Lines 89-105: the video fired error.  Past the bound the call gives up
\* (its promise never settles); otherwise it asks for a fresh URL.
ErrorHandler(c) ==
    /\ pc[c] = "decoding"
    /\ ErrorsSoFar(CallIds) < MaxErrors
    /\ sig' = [sig EXCEPT ![c] = TRUE]
    /\ released' = [released EXCEPT ![c] = Remove(@)]
    /\ tries' = [tries EXCEPT ![c] = @ + 1]
    /\ IF tries[c] > MaxTries
       THEN /\ cache' = GiveUpFilter(cache, req[c][1], req[c][2], ThumbnailTimestamp)
            /\ leftStore' = [leftStore EXCEPT ![c] = cache']
            /\ pc' = [pc EXCEPT ![c] = "gaveup"]
       ELSE /\ pc' = [pc EXCEPT ![c] = "reresolving"]
            /\ UNCHANGED <<cache, leftStore>>
    /\ UNCHANGED <<req, result, created, waited, hadRendered, fresh,
                   save, decoded, regLog, wakeLog>>

\* Lines 105-130: the forced getPlaybackUrl answered.
RetryResolved(c, url) ==
    LET index == RetryIndex(cache, req[c][1], req[c][2], ThumbnailTimestamp)
    IN /\ pc[c] = "reresolving"
       /\ IF ~url
          THEN /\ pc' = [pc EXCEPT ![c] = "null"]
               /\ UNCHANGED <<cache, created>>
          ELSE /\ cache' = IF index # 0
                           THEN [cache EXCEPT ![index].video = c]
                           ELSE Append(cache, PendingEntry(c, created[c] + 1,
                                                           req[c][1], req[c][2],
                                                           ThumbnailTimestamp))
               /\ created' = [created EXCEPT ![c] = @ + 1]
               /\ pc' = [pc EXCEPT ![c] = "decoding"]
       /\ UNCHANGED <<req, tries, result, waited, sig, hadRendered, leftStore, fresh,
                      save, decoded, released, regLog, wakeLog>>

\* --------------------------------------------------- specification Spec
\* renderThumbnail called for the default or the target size.
Render ==
    /\ FreeCalls # {} /\ NextCall <= MaxCalls
    /\ \E s \in RequestSizes : RenderStart(NextCall, s[1], s[2], SaveVideo)
    /\ UNCHANGED presentVars

UrlAnswer ==
    /\ \E c \in CallIds, url \in BOOLEAN : UrlResolved(c, url)
    /\ UNCHANGED presentVars

DataReady ==
    /\ \E c \in CallIds, s \in VideoSizes : LoadedData(c, s[1], s[2])
    /\ UNCHANGED presentVars

DecodeError ==
    /\ \E c \in CallIds : ErrorHandler(c)
    /\ UNCHANGED presentVars

RetryUrlAnswer ==
    /\ \E c \in CallIds, url \in BOOLEAN : RetryResolved(c, url)
    /\ UNCHANGED presentVars

Next == Render \/ UrlAnswer \/ DataReady \/ DecodeError \/ RetryUrlAnswer

Spec == Init /\ [][Next]_vars

\* --------------------------------------------- specification SpecTarget
\* renderThumbnail called for the target size by callers that may ask to keep
\* the video.
RenderTarget ==
    /\ FreeCalls # {} /\ NextCall <= MaxTargetCalls
    /\ \E saveVideo \in BOOLEAN :
          RenderStart(NextCall, TargetWidth, TargetHeight, saveVideo)
    /\ UNCHANGED presentVars

NextTarget == RenderTarget \/ UrlAnswer \/ DataReady \/ DecodeError \/ RetryUrlAnswer

SpecTarget == Init /\ [][NextTarget]_vars

\* -------------------------------------------- specification SpecWaiters
\* More calls for the one target key, so that several of them wait on the
\* pending entry of an earlier one; decoders may fail and be retried.
RenderSameKey ==
    /\ FreeCalls # {} /\ NextCall <= MaxWaiterCalls
    /\ RenderStart(NextCall, TargetWidth, TargetHeight, SaveVideo)
    /\ UNCHANGED presentVars

WaiterDecodeError ==
    /\ ErrorsSoFar(CallIds) < MaxWaiterErrors
    /\ \E c \in CallIds : ErrorHandler(c)
    /\ UNCHANGED presentVars

NextWaiters ==
    RenderSameKey \/ UrlAnswer \/ DataReady \/ WaiterDecodeError \/ RetryUrlAnswer

SpecWaiters == Init /\ [][NextWaiters]_vars

\* ----------------------------------------------- createThumbnailCanvas
\* Lines 143-145: the call up to its await of getPlaybackUrl.
CanvasStart(p) ==
    /\ ppc[p] = "idle"
    /\ \A q \in PresentIds : q < p => ppc[q] # "idle"
    /\ ppc' = [ppc EXCEPT ![p] = "resolving"]
    /\ UNCHANGED <<small, large, smallInfo, drawn, readyCalls>>
    /\ UNCHANGED renderVars

\* Lines 145-154 and 176: without urls the call returns null; otherwise it
\* creates the canvas, calls renderThumbnail(videoID, 0, 0, ...), which runs
\* to its first await, and returns the canvas.
CanvasUrlResolved(p, urls) ==
    /\ ppc[p] = "resolving"
    /\ IF ~urls
       THEN /\ ppc' = [ppc EXCEPT ![p] = "nocanvas"]
            /\ UNCHANGED <<small, renderVars>>
       ELSE /\ FreeCalls # {}
            /\ RenderStart(NextCall, 0, 0, SaveVideo)
            /\ small' = [small EXCEPT ![p] = NextCall]
            /\ ppc' = [ppc EXCEPT ![p] = "awaitSmall"]
    /\ UNCHANGED <<large, smallInfo, drawn, readyCalls>>

\* Line 155 with the size comparison lost.
NeedsLargerOnlyNull(smallerCanvasInfo, width, height) ==
    smallerCanvasInfo = NoEntry

\* Line 155: whether the larger thumbnail is generated too.
NeedsLarger(smallerCanvasInfo, width, height) ==
    \/ smallerCanvasInfo = NoEntry
    \/ smallerCanvasInfo.width < width
    \/ smallerCanvasInfo.height < height

\* Line 164 with the guard lost: `ready` after every larger thumbnail.
ReadyAfterLargerAlways(smallerCanvasInfo) == TRUE

\* Line 164 with the call lost: `ready` never follows the larger thumbnail.
ReadyAfterLargerNever(smallerCanvasInfo) == FALSE

\* Line 164: whether `ready` is called once the larger thumbnail is drawn.
ReadyAfterLarger(smallerCanvasInfo) == smallerCanvasInfo = NoEntry

\* drawCentered putting the frame under what the canvas already shows.
DrawCenteredFirst(surface, imageInfo) == <<imageInfo>> \o surface

\* drawCentered, lines 179-183: drawImage puts the frame over what the canvas
\* shows; `surface` is the sequence of frames drawn so far.
DrawCentered(surface, imageInfo) == Append(surface, imageInfo)

\* Lines 154-173: the then-callback of the default-size render.
SmallThen(p, width, height) ==
    LET smallerCanvasInfo == result[small[p]]
    IN /\ ppc[p] = "awaitSmall"
       /\ pc[small[p]] \in {"returned", "null"}
       /\ smallInfo' = [smallInfo EXCEPT ![p] = smallerCanvasInfo]
       \* setTimeout when the larger thumbnail is needed
       /\ ppc' = [ppc EXCEPT ![p] =
             IF NeedsLarger(smallerCanvasInfo, width, height) THEN "timer" ELSE "done"]
       /\ IF NeedsLarger(smallerCanvasInfo, width, height) /\ smallerCanvasInfo = NoEntry
          THEN \* `if (!smallerCanvasInfo) return`
               UNCHANGED <<drawn, readyCalls>>
          ELSE /\ drawn' = [drawn EXCEPT ![p] = DrawCentered(@, smallerCanvasInfo)]
               /\ readyCalls' = [readyCalls EXCEPT ![p] = @ + 1]
       /\ UNCHANGED <<small, large>>
       /\ UNCHANGED renderVars

\* Line 174: the default-size render rejected; the catch swallows it.
SmallCatch(p) ==
    /\ ppc[p] = "awaitSmall"
    /\ pc[small[p]] = "rejected"
    /\ ppc' = [ppc EXCEPT ![p] = "done"]
    /\ UNCHANGED <<small, large, smallInfo, drawn, readyCalls>>
    /\ UNCHANGED renderVars

\* Lines 159-160: the 6000 ms timer fired; renderThumbnail(videoID, width,
\* height, ...) runs to its first await.
TimerFired(p, width, height) ==
    /\ ppc[p] = "timer"
    /\ FreeCalls # {}
    /\ RenderStart(NextCall, width, height, SaveVideo)
    /\ large' = [large EXCEPT ![p] = NextCall]
    /\ ppc' = [ppc EXCEPT ![p] = "awaitLarge"]
    /\ UNCHANGED <<small, smallInfo, drawn, readyCalls>>

\* Lines 160-165: the then-callback of the delayed render.
LargeThen(p) ==
    LET largerCanvasInfo == result[large[p]]
    IN /\ ppc[p] = "awaitLarge"
       /\ pc[large[p]] \in {"returned", "null"}
       /\ ppc' = [ppc EXCEPT ![p] = "done"]
       /\ IF largerCanvasInfo = NoEntry
          THEN UNCHANGED <<drawn, readyCalls>>
          ELSE /\ drawn' = [drawn EXCEPT ![p] = DrawCentered(@, largerCanvasInfo)]
               /\ readyCalls' = [readyCalls EXCEPT ![p] =
                     IF ReadyAfterLarger(smallInfo[p]) THEN @ + 1 ELSE @]
       /\ UNCHANGED <<small, large, smallInfo>>
       /\ UNCHANGED renderVars

\* Line 165: the delayed render rejected; the catch swallows it.
LargeCatch(p) ==
    /\ ppc[p] = "awaitLarge"
    /\ pc[large[p]] = "rejected"
    /\ ppc' = [ppc EXCEPT ![p] = "done"]
    /\ UNCHANGED <<small, large, smallInfo, drawn, readyCalls>>
    /\ UNCHANGED renderVars

\* -------------------------------------------- specification SpecPresent
\* Canvases created for the same video while every decoder comes to fire
\* loadeddata.  A render of a canvas still has each of its outcomes: an entry,
\* null (no url), the rejection "Already rendered", or no settlement at all
\* (a call left waiting on an onReady list that nobody runs).
\* replaceThumbnail: createThumbnailCanvas(videoID, 720, 404, false, ready).
Present == \E p \in PresentIds : CanvasStart(p)

PresentUrlAnswer == \E p \in PresentIds, urls \in BOOLEAN : CanvasUrlResolved(p, urls)

SmallSettled == \E p \in PresentIds : SmallThen(p, TargetWidth, TargetHeight)

SmallFailed == \E p \in PresentIds : SmallCatch(p)

Timer == \E p \in PresentIds : TimerFired(p, TargetWidth, TargetHeight)

LargeSettled == \E p \in PresentIds : LargeThen(p)

LargeFailed == \E p \in PresentIds : LargeCatch(p)

NextPresent ==
    \/ Present \/ PresentUrlAnswer \/ SmallSettled \/ SmallFailed \/ Timer
    \/ LargeSettled \/ LargeFailed
    \/ UrlAnswer \/ DataReady

SpecPresent == Init /\ [][NextPresent]_vars

\* SpecPresent where no promise, decoder event or timer that is due waits for
\* ever: the event loop runs every callback that is ready.
FairSpecPresent ==
    /\ SpecPresent
    /\ WF_vars(Present) /\ WF_vars(PresentUrlAnswer)
    /\ WF_vars(SmallSettled) /\ WF_vars(SmallFailed) /\ WF_vars(Timer)
    /\ WF_vars(LargeSettled) /\ WF_vars(LargeFailed)
    /\ WF_vars(UrlAnswer) /\ WF_vars(DataReady)

\* =================================================================== claims
Started == { c \in CallIds : pc[c] # "idle" }
Sized(c) == req[c][1] # 0 /\ req[c][2] # 0
Pending(v, size) ==
    /\ ~v.rendered
    /\ v.width = size[1] /\ v.height = size[2]
    /\ v.timestamp = ThumbnailTimestamp

\* C1 (as claimed): while no decoder of a call for a key has fired loadeddata
\* or error, so that every call for that key was issued before the first
\* decoder signalled, at most one decoder has been created for the key.
C1_OneDecoderPerKey ==
    \A k \in RequestSizes :
        LET calls == { c \in Started : req[c] = k }
        IN (\A c \in calls : ~sig[c])
           => Cardinality({ c \in calls : created[c] > 0 }) <= 1

\* C2 (as claimed): a call that pushed its resolve onto a pending entry's
\* onReady never asks for a URL and never creates a decoder: it stays
\* suspended until the callback runs and then returns the entry it was given.
C2_WaiterCreatesNoDecoder ==
    \A c \in CallIds :
        waited[c] => /\ pc[c] \in {"waiting", "returned"}
                     /\ created[c] = 0

\* C3 (as claimed): a call for a nonzero size that finds some rendered entry
\* of at least that size and the same timestamp in the array returns a
\* rendered entry at once and creates no decoder, whatever else is cached.
C3_RenderedServedAtOnce ==
    \A c \in CallIds :
        hadRendered[c] => /\ pc[c] = "returned"
                          /\ created[c] = 0
                          /\ ~waited[c]

\* C4 (as claimed): one call creates at most 5 decoders.
C4_AtMostFiveDecoders ==
    \A c \in CallIds : created[c] <= MaxTries

\* C5: the give-up step leaves no pending entry of the requested size and
\* timestamp in the array, and no pending entry of the given-up call is ever
\* in the array afterwards; a call that gave up never settles; and a call for
\* the same key that finds the array as the give-up left it does not wait on
\* an entry: it asks for the URL and, unless there is none, creates a decoder.
C5_GiveUpLeavesNothingStale ==
    /\ [](\A c \in CallIds :
            pc[c] = "gaveup"
            => ~\E i \in 1 .. Len(cache) : ~cache[i].rendered /\ cache[i].video = c)
    /\ [][\A c \in CallIds :
            (pc[c] = "decoding" /\ pc'[c] = "gaveup")
            => ~\E i \in 1 .. Len(cache') : Pending(cache'[i], req[c])]_vars
    /\ [][\A c \in CallIds :
            pc[c] = "gaveup" => pc'[c] = "gaveup" /\ result'[c] = NoEntry]_vars
    /\ [](\A d \in CallIds :
            fresh[d] => /\ ~waited[d]
                        /\ pc[d] \in {"resolving", "null"} \/ created[d] > 0)

\* C5 witness: a call gave up after its last decoder failed, and a call for
\* the same key, made on the array as it was left, has created its decoder.
C5_Witness ==
    \E c, d \in CallIds :
        /\ pc[c] = "gaveup" /\ tries[c] > MaxTries
        /\ fresh[d] /\ req[d] = req[c]
        /\ pc[d] = "decoding" /\ created[d] = 1

\* C10: a call for a nonzero width and height that returned an entry returned
\* one at least as wide and as high as requested.
C10_ReturnedAtLeastRequested ==
    \A c \in CallIds :
        (pc[c] = "returned" /\ Sized(c))
        => /\ result[c].width >= req[c][1]
           /\ result[c].height >= req[c][2]

\* C10 witness: one sized call returned the entry it decoded, another was
\* served the cached entry.
C10_Witness ==
    \E c, d \in CallIds :
        /\ pc[c] = "returned" /\ Sized(c) /\ created[c] = 1
        /\ pc[d] = "returned" /\ Sized(d) /\ created[d] = 0
        /\ result[d].canvas = c

Presented == { p \in PresentIds : small[p] # 0 }
SmallerThanTarget(info) ==
    /\ info # NoEntry
    /\ info.width < TargetWidth \/ info.height < TargetHeight

\* C6: `ready` is invoked at most once for a canvas, and not before a frame
\* has been drawn on it.
C6_ReadyOnceAfterDraw ==
    \A p \in PresentIds :
        /\ readyCalls[p] <= 1
        /\ readyCalls[p] = 1 => Len(drawn[p]) >= 1

\* C6 witness: both the smaller and the larger frame were drawn on a canvas
\* and `ready` was invoked once.
C6_Witness ==
    \E p \in PresentIds :
        /\ ppc[p] = "done" /\ Len(drawn[p]) = 2 /\ readyCalls[p] = 1
        /\ drawn[p][1] = smallInfo[p] /\ drawn[p][2] = result[large[p]]

\* C7 (as claimed): when the default-size render gave a frame smaller than
\* the target, `ready` is not invoked until the frame of the delayed render
\* has been drawn as the second frame.
C7_ReadyOnlyAfterLarger ==
    \A p \in PresentIds :
        (SmallerThanTarget(smallInfo[p]) /\ readyCalls[p] >= 1)
        => Len(drawn[p]) = 2

\* C7 (amended): when the default-size render gave a frame smaller than the
\* target, that frame is drawn first and `ready` is invoked with it, the
\* delayed render is scheduled, and drawing its frame does not invoke `ready`
\* again.
C7_ReadyWithSmaller ==
    \A p \in PresentIds :
        SmallerThanTarget(smallInfo[p])
        => /\ drawn[p][1] = smallInfo[p]
           /\ readyCalls[p] = 1
           /\ ppc[p] \in {"timer", "awaitLarge"} \/ large[p] # 0
           /\ Len(drawn[p]) = 2 => drawn[p][2] = result[large[p]]

\* C7 witness: the smaller frame was drawn, then the frame of the delayed
\* render over it, and `ready` was invoked once.
C7_Witness ==
    \E p \in PresentIds :
        /\ SmallerThanTarget(smallInfo[p])
        /\ Len(drawn[p]) = 2 /\ ~SmallerThanTarget(drawn[p][2])
        /\ readyCalls[p] = 1

\* C8 (as claimed): once the default-size render has failed, with null or
\* with the rejection "Already rendered", and the canvas has handled it,
\* nothing was drawn for it and the delayed render is scheduled or issued.
C8_DelayedRenderAfterFailure ==
    \A p \in Presented :
        (pc[small[p]] \in {"null", "rejected"} /\ ppc[p] # "awaitSmall")
        => /\ smallInfo[p] = NoEntry
           /\ ppc[p] = "timer" \/ large[p] # 0

\* C9: when getPlaybackUrl gave urls for the target size and the default-size
\* render returned null, the canvas exists, nothing is drawn and `ready` is
\* not invoked before the delayed render settles, and once it has settled
\* with a frame exactly that frame is drawn and `ready` was invoked once.
C9_NullSmallThenLarger ==
    \A p \in Presented :
        pc[small[p]] = "null"
        => /\ ppc[p] # "nocanvas"
           /\ ppc[p] \in {"awaitSmall", "timer", "awaitLarge"}
              => drawn[p] = <<>> /\ readyCalls[p] = 0
           /\ (ppc[p] = "done" /\ pc[large[p]] = "returned")
              => drawn[p] = <<result[large[p]]>> /\ readyCalls[p] = 1

\* C9 witness: the default-size render returned null for want of a URL, the
\* delayed render returned a frame, and the frame was drawn.
C9_Witness ==
    \E p \in Presented :
        /\ pc[small[p]] = "null" /\ created[small[p]] = 0
        /\ ppc[p] = "done" /\ pc[large[p]] = "returned"
        /\ Len(drawn[p]) = 1 /\ readyCalls[p] = 1

\* ------------------------------------------------------ claims C11 .. C20
SameTriple(v, w) ==
    v.width = w.width /\ v.height = w.height /\ v.timestamp = w.timestamp

\* C11 (as claimed): the array never holds two entries, pending or rendered,
\* of the same width, height and timestamp.
C11_OneEntryPerTriple ==
    \A i, j \in 1 .. Len(cache) :
        i # j => ~SameTriple(cache[i], cache[j])

\* C12 (as claimed): the give-up of a call removes exactly the entries whose
\* width, height and timestamp all equal the request and leaves every other
\* entry of the array as it was.
C12_GiveUpRemovesOnlyTheKey ==
    [][\A c \in CallIds :
         (pc[c] = "decoding" /\ pc'[c] = "gaveup")
         => cache' = SelectSeq(cache,
                LAMBDA v : ~(/\ v.width = req[c][1] /\ v.height = req[c][2]
                             /\ v.timestamp = ThumbnailTimestamp))]_vars

\* C14 (as claimed): once a call has published the entry it decoded, no
\* pending entry of that call is left in the array and no call still waits
\* on one: the pending entry was replaced and its onReady callbacks ran.
C14_PublishedReplacesOwnPending ==
    \A c \in CallIds :
        (pc[c] = "returned" /\ created[c] > 0)
        => ~\E i \in 1 .. Len(cache) : ~cache[i].rendered /\ cache[i].video = c

\* C19 (as claimed): every pending entry in the array belongs to a call that
\* is still in flight (its decoder is awaited or being replaced).
C19_PendingMeansInFlight ==
    \A i \in 1 .. Len(cache) :
        ~cache[i].rendered => pc[cache[i].video] \in {"decoding", "reresolving"}

\* C13 (as claimed): when a call's video fires loadeddata the call is rejected
\* exactly if the array already holds a rendered entry of the decoded width,
\* height and timestamp; otherwise it publishes its entry and resolves with it.
C13_SupersededIffSameDecodedSize ==
    [][\A c \in CallIds :
         (pc[c] = "decoding" /\ pc'[c] \in {"rejected", "returned"})
         => /\ pc'[c] = "rejected"
               <=> \E i \in 1 .. Len(cache) :
                      /\ cache[i].rendered
                      /\ <<cache[i].width, cache[i].height>> = decoded'[c]
                      /\ cache[i].timestamp = ThumbnailTimestamp
            /\ pc'[c] = "returned"
               => /\ result'[c] = [width |-> decoded'[c][1],
                                   height |-> decoded'[c][2], canvas |-> c]
                  /\ \E i \in 1 .. Len(cache') :
                        cache'[i].rendered /\ cache'[i].canvas = c]_vars

\* C16: no step other than a give-up removes a rendered entry or changes its
\* size, timestamp or frame, and a call that publishes did not decode the
\* size of a rendered entry that was already there.
C16_RenderedNeverOverwritten ==
    [][/\ \A i \in 1 .. Len(cache) :
            cache[i].rendered
            => \/ \E c \in CallIds : pc[c] # "gaveup" /\ pc'[c] = "gaveup"
               \/ /\ i <= Len(cache')
                  /\ cache'[i].rendered
                  /\ SameTriple(cache'[i], cache[i])
                  /\ cache'[i].canvas = cache[i].canvas
       /\ \A c \in CallIds :
            (pc[c] = "decoding" /\ pc'[c] = "returned")
            => ~\E i \in 1 .. Len(cache) :
                   /\ cache[i].rendered
                   /\ <<cache[i].width, cache[i].height>> = decoded'[c]]_vars

\* C16 witness: a call decoded the size of a rendered entry of another call,
\* was rejected, and that entry is still in the array with its own frame.
C16_Witness ==
    \E c \in CallIds, i \in 1 .. Len(cache) :
        /\ pc[c] = "rejected"
        /\ cache[i].rendered /\ cache[i].canvas # c
        /\ <<cache[i].width, cache[i].height>> = decoded[c]

\* C18 (as claimed): if no getPlaybackUrl ever fails, every canvas that was
\* created comes to have a frame drawn on it and its `ready` invoked.
C18_EveryPresentComposes ==
    ([](\A c \in CallIds : pc[c] # "null") /\ [](\A q \in PresentIds : ppc[q] # "nocanvas"))
    => \A p \in PresentIds :
          [](ppc[p] = "awaitSmall" => <>(Len(drawn[p]) > 0 /\ readyCalls[p] > 0))

\* C20: a canvas gets at most two frames; the first is the one of the
\* default-size render, drawn while the delayed render is not yet issued, and
\* any later one is the frame of the delayed render, drawn over it.
C20_SmallThenLargeAtMostTwo ==
    /\ [](\A p \in PresentIds : Len(drawn[p]) <= 2)
    /\ [][\A p \in PresentIds :
            drawn'[p] # drawn[p]
            => \/ /\ ppc[p] = "awaitSmall" /\ large[p] = 0
                  /\ drawn[p] = <<>>
                  /\ drawn'[p] = <<result[small[p]]>>
               \/ /\ ppc[p] = "awaitLarge" /\ ppc'[p] = "done"
                  /\ drawn'[p] = Append(drawn[p], result[large[p]])]_vars

\* C20 witness: the frame of the default-size render was drawn first and the
\* frame of the delayed render second.
C20_Witness ==
    \E p \in PresentIds :
        /\ Len(drawn[p]) = 2
        /\ drawn[p][1] = result[small[p]]
        /\ drawn[p][2] = result[large[p]]
        /\ drawn[p][1] # drawn[p][2]

\* decoders the call has created and not released
Held(c) == created[c] - released[c]

\* C17: a call never holds more than one video; it holds none once it was
\* rejected, gave up or resolved null and while it awaits the forced
\* getPlaybackUrl after an error; after publishing it holds none unless it
\* was called with saveVideo.
C17_DecodersReleased ==
    \A c \in CallIds :
        /\ Held(c) \in {0, 1}
        /\ pc[c] \in {"rejected", "gaveup", "null", "reresolving"} => Held(c) = 0
        /\ (pc[c] = "returned" /\ ~save[c]) => Held(c) = 0

\* C17 witness: one call gave up after six videos and holds none, another
\* published its own video and holds it exactly if it was called with saveVideo.
C17_Witness ==
    /\ \E c \in CallIds : pc[c] = "gaveup" /\ created[c] = MaxTries + 1 /\ Held(c) = 0
    /\ \E c \in CallIds : /\ pc[c] = "returned" /\ created[c] > 0
                           /\ (save[c] <=> Held(c) = 1)

\* position of the call's registration in regLog
RegIndex(c) == First({ i \in 1 .. Len(regLog) : regLog[i][1] = c })
\* the pending entry the call registered on
RegEntry(c) == regLog[RegIndex(c)][2]

\* C15: no onReady callback is invoked twice, each invoked callback was
\* registered, and callbacks registered on the same pending entry are invoked
\* in the order of their registration with the same published entry.
C15_WaitersOnceInOrder ==
    /\ \A i, j \in 1 .. Len(wakeLog) : i # j => wakeLog[i][1] # wakeLog[j][1]
    /\ \A i \in 1 .. Len(wakeLog) : RegIndex(wakeLog[i][1]) # 0
    /\ \A i, j \in 1 .. Len(wakeLog) :
          (i < j /\ RegEntry(wakeLog[i][1]) = RegEntry(wakeLog[j][1]))
          => /\ RegIndex(wakeLog[i][1]) < RegIndex(wakeLog[j][1])
             /\ wakeLog[i][2] = wakeLog[j][2]

\* C15 witness: two callbacks registered on one pending entry were invoked.
C15_Witness ==
    \E i, j \in 1 .. Len(wakeLog) :
        i < j /\ RegEntry(wakeLog[i][1]) = RegEntry(wakeLog[j][1])

====
